---- MODULE Spec2Model ----
(***************************************************************************)
(* Model of the runnable examples of dong-tran/docs:                       *)
(*   - the clean-architecture task service (domain.Task, TaskUseCase,      *)
(*     TaskRepositoryImpl, TaskHandler);                                    *)
(*   - the relationships-integration order service (order.Order,           *)
(*     OrderUseCase, OrderRepositoryImpl, EventPublisher, PaymentFactory); *)
(*   - the task use cases under concurrent requests, one repository        *)
(*     statement at a time;                                                *)
(*   - the order use case over any OrderRepository;                        *)
(*   - the sync.Once singleton, the API gateway, the Order aggregate of    *)
(*     the DDD slides, the pricing service and the saga loop.              *)
(*                                                                         *)
(* Strings are modelled as n repetitions of one character; Go's len()      *)
(* counts bytes of the UTF-8 encoding, so a string carries both its number *)
(* of characters and, through the width of its character, its byte length. *)
(* Timestamps of tasks are left out; the order aggregate keeps updatedAt   *)
(* against a logical clock.                                                *)
(***************************************************************************)
EXTENDS Integers, Sequences, FiniteSets, TLC

VARIABLES
    tasks,        \* the tasks table: id -> row
    nextID,       \* the next AUTOINCREMENT id of the tasks table
    resp,         \* the last answer of the task service
    orders,       \* the orders table: id -> row
    nextOrderID,  \* the next fresh order id (uuid.New)
    journal,      \* rows saved and events delivered to observers, in order
    oresp,        \* the last answer of the order service
    ord,          \* an Order aggregate held by a caller of package order
    aggCall,      \* the last method called on ord
    aggErr,       \* the error that call returned
    aggArgs,      \* the items that call was given, for a call of NewOrder
    now,          \* the clock read by time.Now
    clients,      \* the task use-case call each concurrent request is in
    base,         \* the tasks table when the running round of requests began
    round,        \* the number of the running round of concurrent requests
    once,         \* the sync.Once of package creational: done flag and mutex
    instance,     \* the package variable instance (*Database)
    heap,         \* the Database values allocated so far
    callers,      \* the goroutines calling GetDatabaseInstance
    exchange,     \* the last request answered by the API gateway
    received,     \* the requests each backing service has received
    slide,        \* an Order aggregate of the DDD presentation
    slideCall,    \* the last method called on slide and its error
    product,      \* a Product aggregate of the DDD example
    priceCall,    \* the last ApplyDiscount call and its error
    saga          \* a saga and the run of ExecuteTransaction over it

taskVars == <<tasks, nextID, resp>>

orderVars == <<orders, nextOrderID, journal, oresp>>

aggVars == <<ord, aggCall, aggErr, aggArgs, now>>

concVars == <<clients, base, round>>

onceVars == <<once, instance, heap, callers>>

gatewayVars == <<exchange, received>>

slideVars == <<slide, slideCall>>

pricingVars == <<product, priceCall>>

sagaVars == <<saga>>

exampleVars == <<onceVars, gatewayVars, slideVars, pricingVars, sagaVars>>

serviceVars == <<taskVars, orderVars, aggVars, concVars>>

nonTaskVars == <<orderVars, aggVars, concVars, exampleVars>>

nonOrderVars == <<tasks, nextID, resp, ord, aggCall, aggErr, aggArgs, now,
                  concVars, exampleVars>>

vars == <<tasks, nextID, resp, orders, nextOrderID, journal, oresp,
          ord, aggCall, aggErr, aggArgs, now, clients, base, round,
          once, instance, heap, callers, exchange, received,
          slide, slideCall, product, priceCall, saga>>

----------------------------------------------------------------------------
(* Bounds *)

MaxTasks == 2
MaxOrders == 1
MaxItems == 2
MaxClock == 2
MaxClients == 2
MaxRounds == 2

----------------------------------------------------------------------------
(* Strings *)

Nil == "nil"

\* bytes of the UTF-8 encoding of one character
Utf8Width(ch) == IF ch = "a" THEN 1 ELSE IF ch = "e'" THEN 2 ELSE 0

EmptyStr == [ch |-> "", n |-> 0]

\* n repetitions of the character ch
Str(ch, n) == IF n = 0 THEN EmptyStr ELSE [ch |-> ch, n |-> n]

\* Go len(s): the number of bytes
ByteLen(s) == s.n * Utf8Width(s.ch)

\* number of characters of s
RuneCount(s) == s.n

----------------------------------------------------------------------------
(* domain.Task *)

ErrEmptyTitle == "task title cannot be empty"
ErrTitleTooLong == "task title cannot exceed 200 characters"
ErrDescriptionTooLong == "task description cannot exceed 1000 characters"
ErrTaskNotFound == "task not found"
ErrNoRows == "sql: no rows in result set"
ErrDB == "database error"

MaxTitleLen == 200
MaxDescriptionLen == 1000

NilTask == [nil |-> TRUE]

\* ValidateTitle without its check for the empty title
ValidateTitle_NoEmptyCheck(title) ==
    IF ByteLen(title) > MaxTitleLen THEN ErrTitleTooLong
    ELSE Nil

ValidateTitle(title) ==
    IF title = EmptyStr THEN ErrEmptyTitle
    ELSE IF ByteLen(title) > MaxTitleLen THEN ErrTitleTooLong
    ELSE Nil

ValidateDescription(description) ==
    IF ByteLen(description) > MaxDescriptionLen THEN ErrDescriptionTooLong
    ELSE Nil

NewTask(title, description) ==
    IF ValidateTitle(title) # Nil
    THEN [task |-> NilTask, err |-> ValidateTitle(title)]
    ELSE IF ValidateDescription(description) # Nil
    THEN [task |-> NilTask, err |-> ValidateDescription(description)]
    ELSE [task |-> [ID |-> 0, Title |-> title, Description |-> description,
                    Completed |-> FALSE],
          err |-> Nil]

MarkAsCompleted(t) == [t EXCEPT !.Completed = TRUE]

\* Task.Update: the task is left as it was when validation fails
TaskUpdate(t, title, description, completed) ==
    IF ValidateTitle(title) # Nil
    THEN [task |-> t, err |-> ValidateTitle(title)]
    ELSE IF ValidateDescription(description) # Nil
    THEN [task |-> t, err |-> ValidateDescription(description)]
    ELSE [task |-> [t EXCEPT !.Title = title, !.Description = description,
                             !.Completed = completed],
          err |-> Nil]

----------------------------------------------------------------------------
(* repository.TaskRepositoryImpl: one SQL statement per method.  fault names
   the repository method whose statement the database fails on this request
   ("none" when the database works); a failed statement changes nothing. *)

RepoMethods == {"Create", "GetByID", "GetAll", "Update", "Delete"}

RepoCreate(tbl, next, task, fault) ==
    IF fault = "Create"
    THEN [tbl |-> tbl, next |-> next, task |-> task, err |-> ErrDB]
    ELSE LET t == [task EXCEPT !.ID = next]
         IN  [tbl |-> [i \in DOMAIN tbl \cup {next} |->
                          IF i = next THEN t ELSE tbl[i]],
              next |-> next + 1, task |-> t, err |-> Nil]

RepoGetByID(tbl, id, fault) ==
    IF fault = "GetByID" THEN [task |-> NilTask, err |-> ErrDB]
    ELSE IF id \in DOMAIN tbl THEN [task |-> tbl[id], err |-> Nil]
    ELSE [task |-> NilTask, err |-> ErrNoRows]

RepoGetAll(tbl, fault) ==
    IF fault = "GetAll" THEN [tasks |-> {}, err |-> ErrDB]
    ELSE [tasks |-> {tbl[i] : i \in DOMAIN tbl}, err |-> Nil]

\* UPDATE ... WHERE id = ?: no row matched is not an error
RepoUpdate(tbl, task, fault) ==
    IF fault = "Update" THEN [tbl |-> tbl, err |-> ErrDB]
    ELSE [tbl |-> [i \in DOMAIN tbl |-> IF i = task.ID THEN task ELSE tbl[i]],
          err |-> Nil]

RepoDelete(tbl, id, fault) ==
    IF fault = "Delete" THEN [tbl |-> tbl, err |-> ErrDB]
    ELSE [tbl |-> [i \in DOMAIN tbl \ {id} |-> tbl[i]], err |-> Nil]

----------------------------------------------------------------------------
(* usecase.TaskUseCase.  Each use case yields the table after the call, the
   task and error returned, the error of the domain validation it ran
   ("notrun" when it ran none) and the repository methods it called. *)

UCResult(tbl, next, task, err, verr, calls) ==
    [tbl |-> tbl, next |-> next, task |-> task, err |-> err, verr |-> verr,
     calls |-> calls]

CreateTaskUC(tbl, next, title, description, fault) ==
    LET n == NewTask(title, description)
        c == RepoCreate(tbl, next, n.task, fault)
    IN  IF n.err # Nil
        THEN UCResult(tbl, next, NilTask, n.err, n.err, <<>>)
        ELSE IF c.err # Nil
        THEN UCResult(tbl, next, NilTask, c.err, Nil, <<"Create">>)
        ELSE UCResult(c.tbl, c.next, c.task, Nil, Nil, <<"Create">>)

GetTaskUC(tbl, next, id, fault) ==
    LET g == RepoGetByID(tbl, id, fault)
    IN  IF g.err # Nil
        THEN UCResult(tbl, next, NilTask, ErrTaskNotFound, "notrun", <<"GetByID">>)
        ELSE UCResult(tbl, next, g.task, Nil, "notrun", <<"GetByID">>)

GetAllTasksUC(tbl, next, fault) ==
    LET g == RepoGetAll(tbl, fault)
    IN  UCResult(tbl, next, g.tasks, g.err, "notrun", <<"GetAll">>)

UpdateTaskUC(tbl, next, id, title, description, completed, fault) ==
    LET g == RepoGetByID(tbl, id, fault)
        u == TaskUpdate(g.task, title, description, completed)
        w == RepoUpdate(tbl, u.task, fault)
    IN  IF g.err # Nil
        THEN UCResult(tbl, next, NilTask, ErrTaskNotFound, "notrun", <<"GetByID">>)
        ELSE IF u.err # Nil
        THEN UCResult(tbl, next, NilTask, u.err, u.err, <<"GetByID">>)
        ELSE IF w.err # Nil
        THEN UCResult(tbl, next, NilTask, w.err, Nil, <<"GetByID", "Update">>)
        ELSE UCResult(w.tbl, next, u.task, Nil, Nil, <<"GetByID", "Update">>)

\* DeleteTask without the lookup that precedes the DELETE
DeleteTaskUC_NoLookup(tbl, next, id, fault) ==
    LET d == RepoDelete(tbl, id, fault)
    IN  UCResult(d.tbl, next, NilTask, d.err, "notrun", <<"Delete">>)

DeleteTaskUC(tbl, next, id, fault) ==
    LET g == RepoGetByID(tbl, id, fault)
        d == RepoDelete(tbl, id, fault)
    IN  IF g.err # Nil
        THEN UCResult(tbl, next, NilTask, ErrTaskNotFound, "notrun", <<"GetByID">>)
        ELSE UCResult(d.tbl, next, NilTask, d.err, "notrun", <<"GetByID", "Delete">>)

CompleteTaskUC(tbl, next, id, fault) ==
    LET g == RepoGetByID(tbl, id, fault)
        t == MarkAsCompleted(g.task)
        w == RepoUpdate(tbl, t, fault)
    IN  IF g.err # Nil
        THEN UCResult(tbl, next, NilTask, ErrTaskNotFound, "notrun", <<"GetByID">>)
        ELSE IF w.err # Nil
        THEN UCResult(tbl, next, NilTask, w.err, "notrun", <<"GetByID", "Update">>)
        ELSE UCResult(w.tbl, next, t, Nil, "notrun", <<"GetByID", "Update">>)

----------------------------------------------------------------------------
(* handler.TaskHandler: the HTTP boundary of the task service *)

StatusOK == 200
StatusCreated == 201
StatusNoContent == 204
StatusBadRequest == 400
StatusNotFound == 404
StatusInternalServerError == 500

TaskIDs == 1..MaxTasks

TitleInputs ==
    {EmptyStr, Str("a", 1), Str("a", MaxTitleLen), Str("a", MaxTitleLen + 1),
     Str("e'", (MaxTitleLen \div 2) + 1)}

DescriptionInputs ==
    {Str("a", MaxDescriptionLen), Str("a", MaxDescriptionLen + 1),
     Str("e'", (MaxDescriptionLen \div 2) + 1)}

Faults == {"none"} \cup RepoMethods

ValidationErrors == {ErrEmptyTitle, ErrTitleTooLong, ErrDescriptionTooLong}

Range(s) == {s[i] : i \in DOMAIN s}

\* why the request failed: the input was rejected ("validation"), the task
\* does not exist ("notfound"), or a statement failed in the database ("db")
Cause(err, calls, fault) ==
    IF err = Nil THEN "none"
    ELSE IF fault \in Range(calls) THEN "db"
    ELSE IF err = ErrTaskNotFound THEN "notfound"
    ELSE "validation"

\* the answer to a request the handler rejected before calling the use case
Rejected(op, id, title, description) ==
    [op |-> op, id |-> id, title |-> title, description |-> description,
     status |-> StatusBadRequest, err |-> "notcalled", verr |-> "notrun",
     calls |-> <<>>, cause |-> "validation", task |-> NilTask]

Answer(op, id, title, description, status, out, fault) ==
    [op |-> op, id |-> id, title |-> title, description |-> description,
     status |-> status, err |-> out.err, verr |-> out.verr,
     calls |-> out.calls, cause |-> Cause(out.err, out.calls, fault),
     task |-> out.task]

\* POST /tasks
HandleCreateTask ==
    /\ UNCHANGED nonTaskVars
    /\ nextID <= MaxTasks
    /\ \E bodyOk \in BOOLEAN :
        IF ~bodyOk
        THEN /\ resp' = Rejected("CreateTask", 0, EmptyStr, EmptyStr)
             /\ UNCHANGED <<tasks, nextID>>
        ELSE \E title \in TitleInputs, description \in DescriptionInputs,
                fault \in {"none", "Create"} :
                LET out == CreateTaskUC(tasks, nextID, title, description, fault)
                IN  /\ tasks' = out.tbl
                    /\ nextID' = out.next
                    /\ resp' = Answer("CreateTask", 0, title, description,
                                      IF out.err # Nil THEN StatusBadRequest
                                      ELSE StatusCreated,
                                      out, fault)

\* GET /tasks/:id
HandleGetTask ==
    /\ UNCHANGED nonTaskVars
    /\ \E idOk \in BOOLEAN :
        /\ IF ~idOk
           THEN resp' = Rejected("GetTask", 0, EmptyStr, EmptyStr)
           ELSE \E id \in TaskIDs, fault \in {"none", "GetByID"} :
                   LET out == GetTaskUC(tasks, nextID, id, fault)
                   IN  resp' = Answer("GetTask", id, EmptyStr, EmptyStr,
                                      IF out.err # Nil THEN StatusNotFound
                                      ELSE StatusOK,
                                      out, fault)
        /\ UNCHANGED <<tasks, nextID>>

\* GET /tasks
HandleGetAllTasks ==
    /\ UNCHANGED nonTaskVars
    /\ \E fault \in {"none", "GetAll"} :
        LET out == GetAllTasksUC(tasks, nextID, fault)
        IN  /\ resp' = Answer("GetAllTasks", 0, EmptyStr, EmptyStr,
                              IF out.err # Nil THEN StatusInternalServerError
                              ELSE StatusOK,
                              out, fault)
            /\ UNCHANGED <<tasks, nextID>>

\* PUT /tasks/:id
HandleUpdateTask ==
    /\ UNCHANGED nonTaskVars
    /\ \E idOk \in BOOLEAN, bodyOk \in BOOLEAN :
        IF ~idOk \/ ~bodyOk
        THEN /\ resp' = Rejected("UpdateTask", 0, EmptyStr, EmptyStr)
             /\ UNCHANGED <<tasks, nextID>>
        ELSE \E id \in TaskIDs, title \in TitleInputs,
                description \in DescriptionInputs, completed \in BOOLEAN,
                fault \in {"none", "GetByID", "Update"} :
                LET out == UpdateTaskUC(tasks, nextID, id, title, description,
                                        completed, fault)
                IN  /\ tasks' = out.tbl
                    /\ nextID' = out.next
                    /\ resp' = Answer("UpdateTask", id, title, description,
                                      IF out.err = Nil THEN StatusOK
                                      ELSE IF out.err = ErrTaskNotFound
                                      THEN StatusNotFound
                                      ELSE StatusBadRequest,
                                      out, fault)

\* DELETE /tasks/:id
HandleDeleteTask ==
    /\ UNCHANGED nonTaskVars
    /\ \E idOk \in BOOLEAN :
        IF ~idOk
        THEN /\ resp' = Rejected("DeleteTask", 0, EmptyStr, EmptyStr)
             /\ UNCHANGED <<tasks, nextID>>
        ELSE \E id \in TaskIDs, fault \in {"none", "GetByID", "Delete"} :
                LET out == DeleteTaskUC(tasks, nextID, id, fault)
                IN  /\ tasks' = out.tbl
                    /\ nextID' = out.next
                    /\ resp' = Answer("DeleteTask", id, EmptyStr, EmptyStr,
                                      IF out.err = Nil THEN StatusNoContent
                                      ELSE IF out.err = ErrTaskNotFound
                                      THEN StatusNotFound
                                      ELSE StatusInternalServerError,
                                      out, fault)

\* TaskUseCase.CompleteTask has no route; it is called on the use case
CallCompleteTask ==
    /\ UNCHANGED nonTaskVars
    /\ \E id \in TaskIDs, fault \in {"none", "GetByID", "Update"} :
        LET out == CompleteTaskUC(tasks, nextID, id, fault)
        IN  /\ tasks' = out.tbl
            /\ nextID' = out.next
            /\ resp' = Answer("CompleteTask", id, EmptyStr, EmptyStr, 0,
                              out, fault)

NoAnswer ==
    [op |-> "none", id |-> 0, title |-> EmptyStr, description |-> EmptyStr,
     status |-> 0, err |-> "notcalled", verr |-> "notrun", calls |-> <<>>,
     cause |-> "none", task |-> NilTask]

EmptyTable == [i \in {} |-> NilTask]

TaskStart ==
    /\ tasks = EmptyTable
    /\ nextID = 1
    /\ resp = NoAnswer

TaskNext ==
    \/ HandleCreateTask
    \/ HandleGetTask
    \/ HandleGetAllTasks
    \/ HandleUpdateTask
    \/ HandleDeleteTask
    \/ CallCompleteTask

----------------------------------------------------------------------------
(* package order: value objects.  A float64 amount is modelled by an integer;
   the amounts used are small integers, on which float64 arithmetic is
   exact. *)

ErrNegativeAmount == "amount cannot be negative"
ErrCurrencyMismatch == "currency mismatch"
ErrQuantity == "quantity must be positive"
ErrNoItems == "order must have at least one item"
ErrOnlyPending == "only pending orders can be marked as paid"
ErrOnlyPaid == "only paid orders can be shipped"
ErrCannotCancel == "cannot cancel shipped or delivered orders"
ErrUnsupportedPayment == "unsupported payment type"

OrderStatusPending == "PENDING"
OrderStatusPaid == "PAID"
OrderStatusShipped == "SHIPPED"
OrderStatusDelivered == "DELIVERED"
OrderStatusCancelled == "CANCELLED"

OrderStatuses ==
    {OrderStatusPending, OrderStatusPaid, OrderStatusShipped,
     OrderStatusDelivered, OrderStatusCancelled}

\* Money{}: the zero value
ZeroMoney == [amount |-> 0, currency |-> ""]

NewMoney(amount, currency) ==
    IF amount < 0 THEN [money |-> ZeroMoney, err |-> ErrNegativeAmount]
    ELSE [money |-> [amount |-> amount,
                     currency |-> IF currency = "" THEN "USD" ELSE currency],
          err |-> Nil]

MoneyAdd(m, other) ==
    IF m.currency # other.currency
    THEN [money |-> ZeroMoney, err |-> ErrCurrencyMismatch]
    ELSE NewMoney(m.amount + other.amount, m.currency)

NilItem == [nil |-> TRUE]

NewOrderItem(productID, productName, quantity, price) ==
    IF quantity <= 0 THEN [item |-> NilItem, err |-> ErrQuantity]
    ELSE [item |-> [productID |-> productID, productName |-> productName,
                    quantity |-> quantity, price |-> price],
          err |-> Nil]

\* OrderItem.Total without the multiplication by the quantity
ItemTotal_IgnoresQuantity(i) ==
    NewMoney(i.price.amount, i.price.currency).money

\* OrderItem.Total: the error of NewMoney is dropped
ItemTotal(i) ==
    NewMoney(i.price.amount * i.quantity, i.price.currency).money

\* the loop of NewOrder: total, err = total.Add(item.Total()) over the items
RECURSIVE AddItems(_, _)
AddItems(total, items) ==
    IF items = <<>> THEN [money |-> total, err |-> Nil]
    ELSE LET sum == MoneyAdd(total, ItemTotal(Head(items)))
         IN  IF sum.err # Nil THEN sum
             ELSE AddItems(sum.money, Tail(items))

NilOrder == [nil |-> TRUE]

\* OrderID{}: the zero value of the id
ZeroOrderID == 0

\* NewOrder; id is the value of NewOrderID(), t the value of time.Now()
NewOrder(customerID, items, id, t) ==
    LET total == AddItems(NewMoney(0, "USD").money, items)
    IN  IF Len(items) = 0 THEN [order |-> NilOrder, err |-> ErrNoItems]
        ELSE IF total.err # Nil THEN [order |-> NilOrder, err |-> total.err]
        ELSE [order |-> [id |-> id, customerID |-> customerID,
                         items |-> items, totalAmount |-> total.money,
                         status |-> OrderStatusPending,
                         createdAt |-> t, updatedAt |-> t],
              err |-> Nil]

\* MarkAsPaid without the guard on the status
MarkAsPaid_NoGuard(o, t) ==
    [order |-> [o EXCEPT !.status = OrderStatusPaid, !.updatedAt = t],
     err |-> Nil]

MarkAsPaid(o, t) ==
    IF o.status # OrderStatusPending THEN [order |-> o, err |-> ErrOnlyPending]
    ELSE [order |-> [o EXCEPT !.status = OrderStatusPaid, !.updatedAt = t],
          err |-> Nil]

\* Ship without the guard on the status
Ship_NoGuard(o, t) ==
    [order |-> [o EXCEPT !.status = OrderStatusShipped, !.updatedAt = t],
     err |-> Nil]

Ship(o, t) ==
    IF o.status # OrderStatusPaid THEN [order |-> o, err |-> ErrOnlyPaid]
    ELSE [order |-> [o EXCEPT !.status = OrderStatusShipped, !.updatedAt = t],
          err |-> Nil]

\* Cancel without the guard on the status
Cancel_NoGuard(o, t) ==
    [order |-> [o EXCEPT !.status = OrderStatusCancelled, !.updatedAt = t],
     err |-> Nil]

Cancel(o, t) ==
    IF o.status = OrderStatusShipped \/ o.status = OrderStatusDelivered
    THEN [order |-> o, err |-> ErrCannotCancel]
    ELSE [order |-> [o EXCEPT !.status = OrderStatusCancelled, !.updatedAt = t],
          err |-> Nil]

----------------------------------------------------------------------------
(* shared/patterns: observer, strategy and factory *)

\* the observers subscribed by main, in subscription order
Observers == <<"Email", "Logger", "Analytics">>

Delivery(observer, event) ==
    [kind |-> "OnEvent", who |-> observer, type |-> event.Type,
     id |-> event.OrderID]

\* EventPublisher.Publish: OnEvent of every observer, synchronously, in order
Publish(jrnl, event) ==
    jrnl \o [i \in 1..Len(Observers) |-> Delivery(Observers[i], event)]

NilStrategy == "nil strategy"

\* a factory that has a strategy for every payment type
CreatePayment_AcceptsAll(paymentType) ==
    [strategy |-> "Credit Card", err |-> Nil]

CreatePayment(paymentType) ==
    CASE paymentType = "credit_card" -> [strategy |-> "Credit Card", err |-> Nil]
      [] paymentType = "paypal" -> [strategy |-> "PayPal", err |-> Nil]
      [] paymentType = "crypto" -> [strategy |-> "Cryptocurrency", err |-> Nil]
      [] OTHER -> [strategy |-> NilStrategy, err |-> ErrUnsupportedPayment]

\* PaymentStrategy.ProcessPayment: every strategy returns nil; the charge is
\* written to the journal
StrategyProcessPayment(jrnl, strategy, amount, orderID) ==
    [jrnl |-> Append(jrnl, [kind |-> "Payment", who |-> strategy,
                            type |-> "ProcessPayment", id |-> orderID]),
     err |-> Nil]

----------------------------------------------------------------------------
(* repository.OrderRepositoryImpl *)

OrderRow(o) ==
    [ID |-> o.id, CustomerID |-> o.customerID, Items |-> o.items,
     TotalAmount |-> o.totalAmount.amount,
     Currency |-> o.totalAmount.currency, Status |-> o.status,
     CreatedAt |-> o.createdAt, UpdatedAt |-> o.updatedAt]

\* INSERT INTO orders; id is the primary key
RepoSave(tbl, jrnl, o, fault) ==
    IF fault = "Save" \/ o.id \in DOMAIN tbl
    THEN [tbl |-> tbl, jrnl |-> jrnl, err |-> ErrDB]
    ELSE [tbl |-> [i \in DOMAIN tbl \cup {o.id} |->
                      IF i = o.id THEN OrderRow(o) ELSE tbl[i]],
          jrnl |-> Append(jrnl, [kind |-> "Save", who |-> "orders",
                                 type |-> "INSERT", id |-> o.id]),
          err |-> Nil]

\* FindByID is a stub: whatever the id, no order and sql.ErrNoRows
RepoFindByID(tbl, id) == [order |-> NilOrder, err |-> ErrNoRows]

\* UPDATE orders SET status, updated_at WHERE id
RepoUpdateOrder(tbl, o, fault) ==
    IF fault = "Update" THEN [tbl |-> tbl, err |-> ErrDB]
    ELSE [tbl |-> [i \in DOMAIN tbl |->
                      IF i = o.id
                      THEN [tbl[i] EXCEPT !.Status = o.status,
                                          !.UpdatedAt = o.updatedAt]
                      ELSE tbl[i]],
          err |-> Nil]

----------------------------------------------------------------------------
(* usecase.OrderUseCase *)

\* the loop of CreateOrder that converts the item DTOs; the first item that
\* fails ends the call
RECURSIVE ConvertItems(_)
ConvertItems(dtos) ==
    IF dtos = <<>> THEN [items |-> <<>>, err |-> Nil]
    ELSE LET d == Head(dtos)
             price == NewMoney(d.Price, d.Currency)
             item == NewOrderItem(d.ProductID, d.ProductName, d.Quantity,
                                  price.money)
             rest == ConvertItems(Tail(dtos))
         IN  IF price.err # Nil THEN [items |-> <<>>, err |-> price.err]
             ELSE IF item.err # Nil THEN [items |-> <<>>, err |-> item.err]
             ELSE IF rest.err # Nil THEN rest
             ELSE [items |-> <<item.item>> \o rest.items, err |-> Nil]

OrderCreatedEvent(o) ==
    [Type |-> "OrderCreated", OrderID |-> o.id, CustomerID |-> o.customerID,
     Total |-> o.totalAmount.amount]

OrderPaidEvent(o, strategy) ==
    [Type |-> "OrderPaid", OrderID |-> o.id, PaymentMethod |-> strategy,
     Amount |-> o.totalAmount.amount]

OUCResult(tbl, next, jrnl, order, err, stage) ==
    [tbl |-> tbl, next |-> next, jrnl |-> jrnl, order |-> order, err |-> err,
     stage |-> stage]

\* CreateOrder that publishes OrderCreated before it saves the order
CreateOrderUC_PublishFirst(tbl, next, jrnl, dto, fault, t) ==
    LET c == ConvertItems(dto.Items)
        n == NewOrder(dto.CustomerID, c.items, next, t)
        pub == Publish(jrnl, OrderCreatedEvent(n.order))
        sv == RepoSave(tbl, pub, n.order, fault)
    IN  IF c.err # Nil
        THEN OUCResult(tbl, next, jrnl, NilOrder, c.err, "convert")
        ELSE IF n.err # Nil
        THEN OUCResult(tbl, next, jrnl, NilOrder, n.err, "NewOrder")
        ELSE IF sv.err # Nil
        THEN OUCResult(tbl, next + 1, pub, NilOrder, sv.err, "Save")
        ELSE OUCResult(sv.tbl, next + 1, sv.jrnl, n.order, Nil, "done")

CreateOrderUC(tbl, next, jrnl, dto, fault, t) ==
    LET c == ConvertItems(dto.Items)
        n == NewOrder(dto.CustomerID, c.items, next, t)
        sv == RepoSave(tbl, jrnl, n.order, fault)
    IN  IF c.err # Nil
        THEN OUCResult(tbl, next, jrnl, NilOrder, c.err, "convert")
        ELSE IF n.err # Nil
        THEN OUCResult(tbl, next, jrnl, NilOrder, n.err, "NewOrder")
        ELSE IF sv.err # Nil
        THEN OUCResult(tbl, next + 1, jrnl, NilOrder, sv.err, "Save")
        ELSE OUCResult(sv.tbl, next + 1,
                       Publish(sv.jrnl, OrderCreatedEvent(n.order)),
                       n.order, Nil, "done")

\* ProcessPayment after its call of orderRepo.FindByID has returned f
ProcessPaymentFound(f, tbl, next, jrnl, paymentMethod, fault, t) ==
    LET p == CreatePayment(paymentMethod)
        pay == StrategyProcessPayment(jrnl, p.strategy,
                                      f.order.totalAmount.amount, f.order.id)
        m == MarkAsPaid(f.order, t)
        u == RepoUpdateOrder(tbl, m.order, fault)
    IN  IF f.err # Nil
        THEN OUCResult(tbl, next, jrnl, NilOrder, f.err, "FindByID")
        ELSE IF p.err # Nil
        THEN OUCResult(tbl, next, jrnl, NilOrder, p.err, "CreatePayment")
        ELSE IF pay.err # Nil
        THEN OUCResult(tbl, next, pay.jrnl, NilOrder, pay.err, "ProcessPayment")
        ELSE IF m.err # Nil
        THEN OUCResult(tbl, next, pay.jrnl, NilOrder, m.err, "MarkAsPaid")
        ELSE IF u.err # Nil
        THEN OUCResult(tbl, next, pay.jrnl, NilOrder, u.err, "Update")
        ELSE OUCResult(u.tbl, next,
                       Publish(Append(pay.jrnl,
                                      [kind |-> "Update", who |-> "orders",
                                       type |-> "UPDATE", id |-> m.order.id]),
                               OrderPaidEvent(m.order, p.strategy)),
                       m.order, Nil, "done")

\* ProcessPayment looks up OrderID{}, not the orderID it is given
ProcessPaymentUC(tbl, next, jrnl, orderID, paymentMethod, fault, t) ==
    ProcessPaymentFound(RepoFindByID(tbl, ZeroOrderID), tbl, next, jrnl,
                        paymentMethod, fault, t)

\* GetOrder looks up OrderID{}, not the orderID it is given
GetOrderUC(tbl, next, jrnl, orderID) ==
    LET f == RepoFindByID(tbl, ZeroOrderID)
    IN  OUCResult(tbl, next, jrnl, f.order, f.err, "FindByID")

----------------------------------------------------------------------------
(* handler.OrderHandler: the HTTP boundary of the order service *)

Customers == {"customer-1", "customer-2"}

\* the items a request can carry: two valid ones, one with quantity 0, one
\* with a negative price, one priced in another currency
ItemInputs ==
    {[ProductID |-> "product-1", ProductName |-> "Laptop", Quantity |-> 1,
      Price |-> 3, Currency |-> ""],
     [ProductID |-> "product-2", ProductName |-> "Mouse", Quantity |-> 2,
      Price |-> 5, Currency |-> "USD"],
     [ProductID |-> "product-1", ProductName |-> "Laptop", Quantity |-> 0,
      Price |-> 3, Currency |-> "USD"],
     [ProductID |-> "product-2", ProductName |-> "Mouse", Quantity |-> 1,
      Price |-> -1, Currency |-> "USD"],
     [ProductID |-> "product-1", ProductName |-> "Laptop", Quantity |-> 1,
      Price |-> 3, Currency |-> "EUR"]}

SeqsUpTo(S, n) == UNION {[1..k -> S] : k \in 0..n}

OrderIDs == 1..(MaxOrders + 1)

PaymentMethods == {"credit_card", "paypal", "crypto", "cash"}

NoDTO == [CustomerID |-> "", Items |-> <<>>]

\* the request is kept with the answer only when it created an order
OrderAnswer(op, id, method, dto, status, out) ==
    [op |-> op, id |-> id, method |-> method,
     dto |-> IF out.err = Nil THEN dto ELSE NoDTO,
     status |-> status, err |-> out.err, stage |-> out.stage,
     order |-> out.order]

OrderRejected(op) ==
    [op |-> op, id |-> 0, method |-> "", dto |-> NoDTO,
     status |-> StatusBadRequest, err |-> "notcalled", stage |-> "Bind",
     order |-> NilOrder]

NoOrderAnswer ==
    [op |-> "none", id |-> 0, method |-> "", dto |-> NoDTO, status |-> 0,
     err |-> "notcalled", stage |-> "none", order |-> NilOrder]

\* POST /orders
HandleCreateOrder ==
    /\ UNCHANGED nonOrderVars
    /\ nextOrderID <= MaxOrders
    /\ \E bodyOk \in BOOLEAN :
        IF ~bodyOk
        THEN /\ oresp' = OrderRejected("CreateOrder")
             /\ UNCHANGED <<orders, nextOrderID, journal>>
        ELSE \E customer \in Customers, items \in SeqsUpTo(ItemInputs, MaxItems),
                fault \in {"none", "Save"} :
                LET dto == [CustomerID |-> customer, Items |-> items]
                    out == CreateOrderUC(orders, nextOrderID, journal, dto,
                                         fault, 0)
                IN  /\ orders' = out.tbl
                    /\ nextOrderID' = out.next
                    /\ journal' = out.jrnl
                    /\ oresp' = OrderAnswer("CreateOrder", 0, "", dto,
                                            IF out.err # Nil
                                            THEN StatusBadRequest
                                            ELSE StatusCreated,
                                            out)

\* POST /orders/:id/payment
HandleProcessPayment ==
    /\ UNCHANGED nonOrderVars
    /\ \E bodyOk \in BOOLEAN :
        IF ~bodyOk
        THEN /\ oresp' = OrderRejected("ProcessPayment")
             /\ UNCHANGED <<orders, nextOrderID, journal>>
        ELSE \E id \in OrderIDs, method \in PaymentMethods,
                fault \in {"none", "Update"} :
                LET out == ProcessPaymentUC(orders, nextOrderID, journal, id,
                                            method, fault, 0)
                IN  /\ orders' = out.tbl
                    /\ nextOrderID' = out.next
                    /\ journal' = out.jrnl
                    /\ oresp' = OrderAnswer("ProcessPayment", id, method,
                                            NoDTO,
                                            IF out.err # Nil
                                            THEN StatusBadRequest
                                            ELSE StatusOK,
                                            out)

\* GET /orders/:id
HandleGetOrder ==
    /\ UNCHANGED nonOrderVars
    /\ \E id \in OrderIDs :
        LET out == GetOrderUC(orders, nextOrderID, journal, id)
        IN  /\ oresp' = OrderAnswer("GetOrder", id, "", NoDTO,
                                    IF out.err # Nil THEN StatusNotFound
                                    ELSE StatusOK,
                                    out)
            /\ UNCHANGED <<orders, nextOrderID, journal>>

EmptyOrders == [i \in {} |-> NilOrder]

OrderStart ==
    /\ orders = EmptyOrders
    /\ nextOrderID = 1
    /\ journal = <<>>
    /\ oresp = NoOrderAnswer

OrderNext ==
    \/ HandleCreateOrder
    \/ HandleProcessPayment
    \/ HandleGetOrder

----------------------------------------------------------------------------
(* package order used directly: a caller builds an Order with NewOrder and
   calls its methods *)

\* the items a caller can build with NewMoney and NewOrderItem
DomainItems ==
    {ConvertItems(<<d>>).items[1] :
        d \in {x \in ItemInputs : ConvertItems(<<x>>).err = Nil}}

Tick ==
    /\ now < MaxClock
    /\ now' = now + 1
    /\ UNCHANGED <<ord, aggCall, aggErr, aggArgs, nextOrderID>>
    /\ UNCHANGED <<taskVars, orders, journal, oresp, concVars, exampleVars>>

CallNewOrder ==
    /\ nextOrderID <= MaxOrders
    /\ \E customer \in Customers, items \in SeqsUpTo(DomainItems, MaxItems) :
        LET n == NewOrder(customer, items, nextOrderID, now)
        IN  /\ aggCall' = "NewOrder"
            /\ aggArgs' = items
            /\ aggErr' = n.err
            /\ IF n.err # Nil
               THEN UNCHANGED <<ord, nextOrderID>>
               ELSE ord' = n.order /\ nextOrderID' = nextOrderID + 1
    /\ UNCHANGED <<now, taskVars, orders, journal, oresp>>
    /\ UNCHANGED <<concVars, exampleVars>>

CallMarkAsPaid ==
    /\ ord # NilOrder
    /\ ord' = MarkAsPaid(ord, now).order
    /\ aggErr' = MarkAsPaid(ord, now).err
    /\ aggCall' = "MarkAsPaid"
    /\ aggArgs' = <<>>
    /\ UNCHANGED <<now, nextOrderID, taskVars, orders, journal, oresp>>
    /\ UNCHANGED <<concVars, exampleVars>>

CallShip ==
    /\ ord # NilOrder
    /\ ord' = Ship(ord, now).order
    /\ aggErr' = Ship(ord, now).err
    /\ aggCall' = "Ship"
    /\ aggArgs' = <<>>
    /\ UNCHANGED <<now, nextOrderID, taskVars, orders, journal, oresp>>
    /\ UNCHANGED <<concVars, exampleVars>>

CallCancel ==
    /\ ord # NilOrder
    /\ ord' = Cancel(ord, now).order
    /\ aggErr' = Cancel(ord, now).err
    /\ aggCall' = "Cancel"
    /\ aggArgs' = <<>>
    /\ UNCHANGED <<now, nextOrderID, taskVars, orders, journal, oresp>>
    /\ UNCHANGED <<concVars, exampleVars>>

AggStart ==
    /\ ord = NilOrder
    /\ aggCall = "none"
    /\ aggErr = Nil
    /\ aggArgs = <<>>
    /\ now = 0

AggNext ==
    \/ Tick
    \/ CallNewOrder
    \/ CallMarkAsPaid
    \/ CallShip
    \/ CallCancel

----------------------------------------------------------------------------
(* Concurrent requests to the task service.  Echo serves every request on
   its own goroutine; each statement a repository method sends to SQLite is
   atomic, the use case around it is not.  A use case is therefore run as its
   first statement (with the domain logic that follows it) and, for
   UpdateTask, CompleteTask and DeleteTask, its second statement.  Requests
   come in rounds: a round ends when every request issued in it has returned.
   The database does not fail here. *)

Clients == 1..MaxClients

ConcTitles == {t \in TitleInputs : RuneCount(t) <= MaxTitleLen \div 2}

ConcDescription == Str("a", MaxDescriptionLen)

Idle ==
    [pc |-> "idle", op |-> "none", id |-> 0, title |-> EmptyStr,
     completed |-> FALSE, local |-> NilTask, task |-> NilTask, err |-> Nil]

TaskCalls ==
    {[op |-> "CreateTask", id |-> 0, title |-> t, completed |-> FALSE] :
        t \in ConcTitles}
    \cup {[op |-> o, id |-> i, title |-> EmptyStr, completed |-> FALSE] :
            o \in {"GetTask", "CompleteTask", "DeleteTask"}, i \in TaskIDs}
    \cup {[op |-> "UpdateTask", id |-> i, title |-> t, completed |-> c] :
            i \in TaskIDs, t \in ConcTitles, c \in BOOLEAN}

\* a request arrives: the handler calls the use case
Issue(c) ==
    /\ clients[c].pc = "idle"
    /\ \E call \in TaskCalls :
        /\ call.op = "CreateTask" =>
              nextID + Cardinality({d \in Clients :
                  clients[d].op = "CreateTask" /\ clients[d].pc = "ready"})
                  <= MaxTasks
        /\ clients' = [clients EXCEPT ![c] =
              [Idle EXCEPT !.pc = "ready", !.op = call.op, !.id = call.id,
                           !.title = call.title,
                           !.completed = call.completed]]
    /\ UNCHANGED <<tasks, nextID, resp, base, round, orderVars, aggVars, exampleVars>>

Returned(cl, task, err) ==
    [cl EXCEPT !.pc = "done", !.local = NilTask, !.task = task, !.err = err]

\* the use case up to and including its first repository statement, and the
\* domain logic between that statement and the next
FirstStatement(c) ==
    LET cl == clients[c]
        g == RepoGetByID(tasks, cl.id, "none")
        u == TaskUpdate(g.task, cl.title, ConcDescription, cl.completed)
        cr == CreateTaskUC(tasks, nextID, cl.title, ConcDescription, "none")
    IN  /\ cl.pc = "ready"
        /\ IF cl.op = "CreateTask"
           THEN /\ tasks' = cr.tbl
                /\ nextID' = cr.next
                /\ clients' = [clients EXCEPT ![c] = Returned(cl, cr.task, cr.err)]
           ELSE /\ UNCHANGED <<tasks, nextID>>
                /\ clients' = [clients EXCEPT ![c] =
                      IF g.err # Nil THEN Returned(cl, NilTask, ErrTaskNotFound)
                      ELSE IF cl.op = "GetTask" THEN Returned(cl, g.task, Nil)
                      ELSE IF cl.op = "UpdateTask" /\ u.err # Nil
                      THEN Returned(cl, NilTask, u.err)
                      ELSE [cl EXCEPT !.pc = "write",
                               !.local = IF cl.op = "UpdateTask" THEN u.task
                                         ELSE IF cl.op = "CompleteTask"
                                         THEN MarkAsCompleted(g.task)
                                         ELSE g.task]]
        /\ UNCHANGED <<resp, base, round, orderVars, aggVars, exampleVars>>

\* the second repository statement: the UPDATE or the DELETE
SecondStatement(c) ==
    LET cl == clients[c]
    IN  /\ cl.pc = "write"
        /\ IF cl.op = "DeleteTask"
           THEN /\ tasks' = RepoDelete(tasks, cl.id, "none").tbl
                /\ clients' = [clients EXCEPT ![c] = Returned(cl, NilTask, Nil)]
           ELSE /\ tasks' = RepoUpdate(tasks, cl.local, "none").tbl
                /\ clients' = [clients EXCEPT ![c] = Returned(cl, cl.local, Nil)]
        /\ UNCHANGED <<nextID, resp, base, round, orderVars, aggVars, exampleVars>>

AllReturned == \A c \in Clients : clients[c].pc \in {"idle", "done"}

\* every request of the round has returned: the next round begins
NextRound ==
    /\ round < MaxRounds
    /\ AllReturned
    /\ \E c \in Clients : clients[c].pc = "done"
    /\ clients' = [c \in Clients |-> Idle]
    /\ base' = [tbl |-> tasks, next |-> nextID]
    /\ round' = round + 1
    /\ UNCHANGED <<tasks, nextID, resp, orderVars, aggVars, exampleVars>>

ConcStart ==
    /\ clients = [c \in Clients |-> Idle]
    /\ base = [tbl |-> EmptyTable, next |-> 1]
    /\ round = 1

ConcNext ==
    \/ \E c \in Clients : Issue(c)
    \/ \E c \in Clients : FirstStatement(c)
    \/ \E c \in Clients : SecondStatement(c)
    \/ NextRound

----------------------------------------------------------------------------
----------------------------------------------------------------------------
(* creational.GetDatabaseInstance: the sync.Once-guarded singleton
   (design-patterns/creational/singleton.go), called from several
   goroutines.  once.Do reads the done flag, and when it is not set takes
   the mutex of the Once, reads the flag again, runs the function and sets
   the flag before it releases the mutex. *)

MaxCallers == 3

Callers == 1..MaxCallers

NilPointer == 0

\* a goroutine outside GetDatabaseInstance that has got no instance yet; got
\* holds the pointer its last call returned
Outside == [pc |-> "idle", got |-> <<>>, slow |-> FALSE]

\* &Database{connection: "Connected"}: a fresh value on the heap
NewDatabase(h) == Append(h, [connection |-> "Connected"])

\* the test once.Do makes under its mutex before it runs the function
MustRun_Always(o) == TRUE

MustRun(o) == ~o.done

\* a goroutine enters GetDatabaseInstance and once.Do reads the done flag
EnterGetDatabaseInstance(c) ==
    /\ callers[c].pc = "idle"
    /\ callers' = [callers EXCEPT ![c].pc = IF once.done THEN "return"
                                                           ELSE "lock",
                                  ![c].slow = ~once.done]
    /\ UNCHANGED <<once, instance, heap>>
    /\ UNCHANGED <<serviceVars, gatewayVars, slideVars, pricingVars, sagaVars>>

\* the slow path takes the mutex of the Once
OnceLock(c) ==
    /\ callers[c].pc = "lock"
    /\ ~once.m
    /\ once' = [once EXCEPT !.m = TRUE]
    /\ callers' = [callers EXCEPT ![c].pc = "locked"]
    /\ UNCHANGED <<instance, heap>>
    /\ UNCHANGED <<serviceVars, gatewayVars, slideVars, pricingVars, sagaVars>>

\* under the mutex: the function literal runs when the flag is still unset
OnceRun(c) ==
    /\ callers[c].pc = "locked"
    /\ IF MustRun(once)
       THEN /\ heap' = NewDatabase(heap)
            /\ instance' = Len(heap')
            /\ callers' = [callers EXCEPT ![c].pc = "store"]
       ELSE /\ UNCHANGED <<heap, instance>>
            /\ callers' = [callers EXCEPT ![c].pc = "unlock"]
    /\ UNCHANGED once
    /\ UNCHANGED <<serviceVars, gatewayVars, slideVars, pricingVars, sagaVars>>

\* the deferred done.Store(1)
OnceStore(c) ==
    /\ callers[c].pc = "store"
    /\ once' = [once EXCEPT !.done = TRUE]
    /\ callers' = [callers EXCEPT ![c].pc = "unlock"]
    /\ UNCHANGED <<instance, heap>>
    /\ UNCHANGED <<serviceVars, gatewayVars, slideVars, pricingVars, sagaVars>>

\* the deferred m.Unlock()
OnceUnlock(c) ==
    /\ callers[c].pc = "unlock"
    /\ once' = [once EXCEPT !.m = FALSE]
    /\ callers' = [callers EXCEPT ![c].pc = "return"]
    /\ UNCHANGED <<instance, heap>>
    /\ UNCHANGED <<serviceVars, gatewayVars, slideVars, pricingVars, sagaVars>>

\* return instance
ReturnInstance(c) ==
    /\ callers[c].pc = "return"
    /\ callers' = [callers EXCEPT ![c].pc = "idle",
                                  ![c].got = <<instance>>]
    /\ UNCHANGED <<once, instance, heap>>
    /\ UNCHANGED <<serviceVars, gatewayVars, slideVars, pricingVars, sagaVars>>

OnceStart ==
    /\ once = [done |-> FALSE, m |-> FALSE]
    /\ instance = NilPointer
    /\ heap = <<>>
    /\ callers = [c \in Callers |-> Outside]

OnceNext ==
    \/ \E c \in Callers : EnterGetDatabaseInstance(c)
    \/ \E c \in Callers : OnceLock(c)
    \/ \E c \in Callers : OnceRun(c)
    \/ \E c \in Callers : OnceStore(c)
    \/ \E c \in Callers : OnceUnlock(c)
    \/ \E c \in Callers : ReturnInstance(c)

----------------------------------------------------------------------------
(* The API gateway of the microservices example (api-gateway main.go).  A
   request reaches the gateway either in origin form (request line
   "GET /api/users/1", so that the URL the server parses has no scheme and
   no host) or in absolute form ("GET http://host/path", as sent to a
   proxy).  proxy hands the URL of the incoming request to
   http.DefaultClient.Do and never reads its target argument. *)

MaxRequests == 3

ServiceHosts == {"localhost:8081", "localhost:8082", "localhost:8083"}

\* the first segment after /api/ of the paths requested
Resources == {"users", "products", "orders", "health"}

\* the URL net/http parses from the request line
RequestURLs ==
    [scheme : {""}, host : {""}, resource : Resources, rest : {"1"}]
        \cup [scheme : {"http"}, host : ServiceHosts,
              resource : Resources, rest : {"1"}]

\* what a backing service answers
ServiceAnswers == [status : {200, 404}, body : {"found", "missing"}]

\* a path no route matches has no target
NoTarget == [nil |-> TRUE]

\* the routes main registers: the target of the handler a path reaches
RouteTarget(url) ==
    CASE url.resource = "users" ->
             [scheme |-> "http", host |-> "localhost:8081"]
      [] url.resource = "products" ->
             [scheme |-> "http", host |-> "localhost:8082"]
      [] url.resource = "orders" ->
             [scheme |-> "http", host |-> "localhost:8083"]
      [] OTHER -> NoTarget

\* http.DefaultClient.Do: the request goes to the host of its URL; a URL
\* without a scheme is refused before anything is sent
ClientDo(url, answer) ==
    IF url.scheme = ""
    THEN [resp |-> [nil |-> TRUE], err |-> "unsupported protocol scheme",
          sentTo |-> ""]
    ELSE [resp |-> answer, err |-> Nil, sentTo |-> url.host]

\* proxy: an error goes to echo, which answers 500; otherwise the status
\* and body of the response are written to the caller
proxy(url, target, answer) ==
    LET r == ClientDo(url, answer)
    IN  IF r.err # Nil
        THEN [status |-> StatusInternalServerError, body |-> "error",
              sentTo |-> r.sentTo, err |-> r.err]
        ELSE [status |-> r.resp.status, body |-> r.resp.body,
              sentTo |-> r.sentTo, err |-> Nil]

\* one request through the gateway
HandleGateway ==
    /\ exchange.n < MaxRequests
    /\ \E url \in RequestURLs, answer \in ServiceAnswers :
          LET target == RouteTarget(url)
              out == IF target = NoTarget
                     THEN [status |-> StatusNotFound, body |-> "error",
                           sentTo |-> "", err |-> Nil]
                     ELSE proxy(url, target, answer)
          IN  /\ exchange' = [n |-> exchange.n + 1, url |-> url,
                              target |-> target, answer |-> answer,
                              sentTo |-> out.sentTo, status |-> out.status,
                              body |-> out.body]
              /\ received' = IF out.sentTo = ""
                             THEN received
                             ELSE [received EXCEPT ![out.sentTo] = @ + 1]
    /\ UNCHANGED <<serviceVars, onceVars, slideVars, pricingVars, sagaVars>>

NoExchange ==
    [n |-> 0, url |-> [nil |-> TRUE], target |-> NoTarget,
     answer |-> [nil |-> TRUE], sentTo |-> "", status |-> 0, body |-> ""]

GatewayStart ==
    /\ exchange = NoExchange
    /\ received = [h \in ServiceHosts |-> 0]

GatewayNext == HandleGateway

----------------------------------------------------------------------------
(* usecase.OrderUseCase over any OrderRepository.  The use case is written
   against the interface; here FindByID may fail or supply any order the
   repository holds, in any status, and Update is the UPDATE statement of
   OrderRepositoryImpl.  Orders reach the repository through StoreOrder,
   which stands for every writer of the table. *)

\* the order a row of the table is read back as
RowOrder(row) ==
    [id |-> row.ID, customerID |-> row.CustomerID, items |-> row.Items,
     totalAmount |-> [amount |-> row.TotalAmount, currency |-> row.Currency],
     status |-> row.Status, createdAt |-> row.CreatedAt,
     updatedAt |-> row.UpdatedAt]

\* what FindByID(OrderID{}) of some OrderRepository can return
AnyFindByID(tbl) ==
    {[order |-> NilOrder, err |-> ErrNoRows]}
        \cup {[order |-> RowOrder(tbl[i]), err |-> Nil] : i \in DOMAIN tbl}

\* the number of charges the payment strategies have made
RECURSIVE Payments(_)
Payments(jrnl) ==
    IF jrnl = <<>> THEN 0
    ELSE (IF Head(jrnl).kind = "Payment" THEN 1 ELSE 0) + Payments(Tail(jrnl))

\* an order of any status comes to be held by the repository
StoreOrder ==
    /\ UNCHANGED nonOrderVars
    /\ nextOrderID <= MaxOrders
    /\ \E item \in DomainItems, status \in OrderStatuses :
          LET n == NewOrder("customer-1", <<item>>, nextOrderID, 0)
          IN  /\ n.err = Nil
              /\ orders' = [i \in DOMAIN orders \cup {nextOrderID} |->
                               IF i = nextOrderID
                               THEN OrderRow([n.order EXCEPT
                                                 !.status = status])
                               ELSE orders[i]]
              /\ nextOrderID' = nextOrderID + 1
              /\ oresp' = [NoOrderAnswer EXCEPT !.op = "StoreOrder"]
              /\ UNCHANGED journal

\* POST /orders/:id/payment served over such a repository
HandlePaymentAnyRepo ==
    /\ UNCHANGED nonOrderVars
    /\ Payments(journal) < MaxOrders
    /\ \E id \in OrderIDs, method \in PaymentMethods,
          fault \in {"none", "Update"}, f \in AnyFindByID(orders) :
          LET out == ProcessPaymentFound(f, orders, nextOrderID, journal,
                                         method, fault, 0)
          IN  /\ orders' = out.tbl
              /\ nextOrderID' = out.next
              /\ journal' = out.jrnl
              /\ oresp' = OrderAnswer("ProcessPayment", id, method, NoDTO,
                                      IF out.err # Nil THEN StatusBadRequest
                                      ELSE StatusOK,
                                      out)

PayNext ==
    \/ StoreOrder
    \/ HandlePaymentAnyRepo

----------------------------------------------------------------------------
(* The Order aggregate of the DDD presentation (Slide "Complete Order
   aggregate"): a draft order is edited with AddItem and RemoveItem and then
   moves through placed, paid, shipped and delivered, or is cancelled.
   Product.HasSufficientStock is not part of the slides; its answer is an
   input of the call. *)

MaxQuantity == 2

ErrInvalidQuantity == "quantity must be positive"
ErrOrderNotEditable == "order cannot be modified"
ErrInsufficientStock == "insufficient stock"
OrderStatusDraft == "Draft"
OrderStatusPlaced == "Placed"

\* the products of the catalogue: id and price
SlideProducts == {[id |-> "p1", price |-> 2], [id |-> "p2", price |-> 3]}

\* NewOrder(customerID)
DraftOrder ==
    [status |-> OrderStatusDraft, items |-> <<>>, total |-> ZeroMoney,
     events |-> <<>>]

\* recalculateTotal: the sum of unitPrice * quantity, in USD
RECURSIVE SumItems(_)
SumItems(items) ==
    IF items = <<>> THEN 0
    ELSE Head(items).unitPrice * Head(items).quantity + SumItems(Tail(items))

recalculateTotal(o) ==
    [o EXCEPT !.total = [amount |-> SumItems(o.items), currency |-> "USD"]]

recordEvent(o, event) == [o EXCEPT !.events = Append(@, event)]

\* the index of the first item of a product, 0 when there is none
ItemIndex(items, productID) ==
    IF \E i \in 1..Len(items) : items[i].productID = productID
    THEN CHOOSE i \in 1..Len(items) :
             /\ items[i].productID = productID
             /\ \A j \in 1..(i - 1) : items[j].productID # productID
    ELSE 0

\* AddItem without the test of the status
AddItem_NoStatusCheck(o, prod, sufficient, quantity) ==
    LET i == ItemIndex(o.items, prod.id)
    IN  IF quantity <= 0 THEN [order |-> o, err |-> ErrInvalidQuantity]
        ELSE IF ~sufficient THEN [order |-> o, err |-> ErrInsufficientStock]
        ELSE IF i # 0
        THEN [order |-> recalculateTotal(
                            [o EXCEPT !.items[i].quantity = @ + quantity]),
              err |-> Nil]
        ELSE [order |-> recalculateTotal(
                            [o EXCEPT !.items =
                                Append(@, [productID |-> prod.id,
                                           unitPrice |-> prod.price,
                                           quantity |-> quantity])]),
              err |-> Nil]

\* Order.AddItem; sufficient is the answer of product.HasSufficientStock
AddItem(o, prod, sufficient, quantity) ==
    LET i == ItemIndex(o.items, prod.id)
    IN  IF o.status # OrderStatusDraft
        THEN [order |-> o, err |-> ErrOrderNotEditable]
        ELSE IF quantity <= 0 THEN [order |-> o, err |-> ErrInvalidQuantity]
        ELSE IF ~sufficient THEN [order |-> o, err |-> ErrInsufficientStock]
        ELSE IF i # 0
        THEN [order |-> recalculateTotal(
                            [o EXCEPT !.items[i].quantity = @ + quantity]),
              err |-> Nil]
        ELSE [order |-> recalculateTotal(
                            [o EXCEPT !.items =
                                Append(@, [productID |-> prod.id,
                                           unitPrice |-> prod.price,
                                           quantity |-> quantity])]),
              err |-> Nil]

\* Order.RemoveItem
RemoveItem(o, productID) ==
    LET i == ItemIndex(o.items, productID)
    IN  IF o.status # OrderStatusDraft
        THEN [order |-> o, err |-> ErrOrderNotEditable]
        ELSE IF i # 0
        THEN [order |-> recalculateTotal(
                            [o EXCEPT !.items =
                                SubSeq(@, 1, i - 1)
                                    \o SubSeq(@, i + 1, Len(@))]),
              err |-> Nil]
        ELSE [order |-> o, err |-> "item not found in order"]

PlaceOrder(o) ==
    IF o.status # OrderStatusDraft THEN [order |-> o, err |-> "order already placed"]
    ELSE IF Len(o.items) = 0 THEN [order |-> o, err |-> "order must have at least one item"]
    ELSE [order |-> recordEvent([o EXCEPT !.status = OrderStatusPlaced],
                                "OrderPlaced"),
          err |-> Nil]

SlideCancel(o) ==
    IF o.status = "Cancelled" THEN [order |-> o, err |-> "order already cancelled"]
    ELSE IF o.status = "Delivered"
    THEN [order |-> o, err |-> "cannot cancel delivered order"]
    ELSE [order |-> recordEvent([o EXCEPT !.status = "Cancelled"],
                                "OrderCancelled"),
          err |-> Nil]

SlideMarkAsPaid(o) ==
    IF o.status # OrderStatusPlaced THEN [order |-> o, err |-> "only placed orders can be marked as paid"]
    ELSE [order |-> recordEvent([o EXCEPT !.status = "Paid"], "OrderPaid"),
          err |-> Nil]

SlideShip(o) ==
    IF o.status # "Paid" THEN [order |-> o, err |-> ErrOnlyPaid]
    ELSE [order |-> recordEvent([o EXCEPT !.status = "Shipped"],
                                "OrderShipped"),
          err |-> Nil]

Deliver(o) ==
    IF o.status # "Shipped" THEN [order |-> o, err |-> "only shipped orders can be delivered"]
    ELSE [order |-> recordEvent([o EXCEPT !.status = "Delivered"],
                                "OrderDelivered"),
          err |-> Nil]

\* the quantity an order holds of a product
QuantityOf(o, productID) ==
    LET i == ItemIndex(o.items, productID)
    IN  IF i = 0 THEN 0 ELSE o.items[i].quantity

SlideCalled(op, out) ==
    /\ slide' = out.order
    /\ slideCall' = [op |-> op, err |-> out.err]
    /\ UNCHANGED <<serviceVars, onceVars, gatewayVars, pricingVars, sagaVars>>

CallAddItem ==
    \E prod \in SlideProducts, sufficient \in BOOLEAN,
       quantity \in 0..MaxQuantity :
        /\ QuantityOf(slide, prod.id) + quantity <= MaxQuantity
        /\ SlideCalled("AddItem", AddItem(slide, prod, sufficient, quantity))

CallRemoveItem ==
    \E prod \in SlideProducts :
        SlideCalled("RemoveItem", RemoveItem(slide, prod.id))

CallPlaceOrder == SlideCalled("PlaceOrder", PlaceOrder(slide))

CallSlideCancel == SlideCalled("Cancel", SlideCancel(slide))

CallSlideMarkAsPaid == SlideCalled("MarkAsPaid", SlideMarkAsPaid(slide))

CallSlideShip == SlideCalled("Ship", SlideShip(slide))

CallDeliver == SlideCalled("Deliver", Deliver(slide))

SlideStart ==
    /\ slide = DraftOrder
    /\ slideCall = [op |-> "none", err |-> Nil]

SlideNext ==
    \/ CallAddItem
    \/ CallRemoveItem
    \/ CallPlaceOrder
    \/ CallSlideCancel
    \/ CallSlideMarkAsPaid
    \/ CallSlideShip
    \/ CallDeliver

----------------------------------------------------------------------------
(* The product catalogue of the DDD example: model.Product with its Money
   price and service.PricingService.  Amounts are float64 in the code; here
   they are whole numbers, and a discount is applied only where
   amount * percent / 100 is a whole number, so that the arithmetic of the
   model is the arithmetic of the code.  Timestamps are left out. *)

MaxPrice == 3

NilProduct == [nil |-> TRUE]

\* model.NewMoney of the DDD example: no default currency
ModelNewMoney(amount, currency) ==
    IF amount < 0 THEN [money |-> ZeroMoney, err |-> "money amount cannot be negative"]
    ELSE [money |-> [amount |-> amount, currency |-> currency], err |-> Nil]

NewProduct(name, price) ==
    IF name = "" THEN [product |-> NilProduct, err |-> "product name cannot be empty"]
    ELSE [product |-> [name |-> name, price |-> price], err |-> Nil]

ChangePrice(p, newPrice) ==
    IF newPrice.amount <= 0 THEN [product |-> p, err |-> "price must be positive"]
    ELSE [product |-> [p EXCEPT !.price = newPrice], err |-> Nil]

\* PricingService.ApplyDiscount
ApplyDiscount(p, discountPercent) ==
    LET currentPrice == p.price
        discountAmount == (currentPrice.amount * discountPercent) \div 100
        newAmount == currentPrice.amount - discountAmount
        newPrice == ModelNewMoney(newAmount, currentPrice.currency)
    IN  IF discountPercent < 0 \/ discountPercent > 100
        THEN [product |-> p, err |-> "discount must be between 0 and 100"]
        ELSE IF newPrice.err # Nil THEN [product |-> p, err |-> newPrice.err]
        ELSE ChangePrice(p, newPrice.money)

\* the prices a product is created with
PriceInputs == {-1, 0} \cup {100 * k : k \in 1..MaxPrice}

\* the discounts asked for: below, at and inside the ends of the range
DiscountInputs == {-1, 0, 25, 50, 100, 101}

\* NewMoney and NewProduct, as CreateProduct calls them
CallNewProduct ==
    /\ \E name \in {"", "Laptop"}, amount \in PriceInputs,
          currency \in {"USD", "EUR"} :
          LET price == ModelNewMoney(amount, currency)
              n == NewProduct(name, price.money)
              err == IF price.err # Nil THEN price.err ELSE n.err
          IN  /\ product' = IF err = Nil THEN n.product ELSE product
              /\ priceCall' = [op |-> "NewProduct", percent |-> 0,
                               err |-> err]
    /\ UNCHANGED <<serviceVars, onceVars, gatewayVars, slideVars, sagaVars>>

CallApplyDiscount ==
    /\ product # NilProduct
    /\ \E percent \in DiscountInputs :
          LET out == ApplyDiscount(product, percent)
          IN  /\ (product.price.amount * percent) % 100 = 0
              /\ product' = out.product
              /\ priceCall' = [op |-> "ApplyDiscount", percent |-> percent,
                               err |-> out.err]
    /\ UNCHANGED <<serviceVars, onceVars, gatewayVars, slideVars, sagaVars>>

PricingStart ==
    /\ product = NilProduct
    /\ priceCall = [op |-> "none", percent |-> 0, err |-> Nil]

PricingNext ==
    \/ CallNewProduct
    \/ CallApplyDiscount

----------------------------------------------------------------------------
(* DistributedDataSaga.ExecuteTransaction (the saga of the integration
   presentation kept in cmd/main.go; SagaOrchestrator.Execute of the
   microservices presentation is the same loop).  Steps are numbered from 1;
   whether the Execute or the Compensate of a step fails is an input of the
   run.  The log holds every call made on a step and on the coordinator. *)

MaxSteps == 5

\* a saga that is not running: no steps, nothing returned
NoSaga ==
    [n |-> 0, pc |-> "idle", k |-> 0, i |-> 0, completedSteps |-> <<>>,
     log |-> <<>>, err |-> Nil, failedAt |-> 0]

\* the index the rollback loop goes to after a compensation that failed
\* ended the rollback
AfterCompensate_StopOnFailure(i, ok) == IF ok THEN i - 1 ELSE 0

\* i-- of the rollback loop, whatever the compensation returned
AfterCompensate(i, ok) == i - 1

\* ExecuteTransaction is called on a saga of n steps
StartTransaction ==
    /\ saga.pc \in {"idle", "returned"}
    /\ \E n \in 0..MaxSteps :
          saga' = [NoSaga EXCEPT !.n = n, !.k = 1,
                                 !.pc = IF n = 0 THEN "returned"
                                                 ELSE "execute"]
    /\ UNCHANGED <<serviceVars, onceVars, gatewayVars, slideVars, pricingVars>>

\* one pass of the loop over s.steps: step.Execute, then the append or the
\* start of the rollback
ExecuteStep ==
    /\ saga.pc = "execute"
    /\ \E ok \in BOOLEAN :
          LET log == Append(saga.log, [call |-> "Execute", step |-> saga.k])
          IN  IF ok
              THEN saga' = [saga EXCEPT
                       !.log = log,
                       !.completedSteps = Append(@, saga.k),
                       !.k = @ + 1,
                       !.pc = IF saga.k = saga.n THEN "returned"
                                                 ELSE "execute"]
              ELSE saga' = [saga EXCEPT
                       !.log = log,
                       !.failedAt = saga.k,
                       !.i = Len(saga.completedSteps),
                       !.err = IF Len(saga.completedSteps) = 0
                               THEN "saga failed at step" ELSE Nil,
                       !.pc = IF Len(saga.completedSteps) = 0
                              THEN "returned" ELSE "compensate"]
    /\ UNCHANGED <<serviceVars, onceVars, gatewayVars, slideVars, pricingVars>>

\* one pass of the rollback loop: completedSteps[i].Compensate, the log of
\* its failure, i--, and the return of the error after the last pass
CompensateStep ==
    /\ saga.pc = "compensate"
    /\ \E ok \in BOOLEAN :
          LET step == saga.completedSteps[saga.i]
              called == Append(saga.log,
                               [call |-> "Compensate", step |-> step])
              log == IF ok THEN called
                     ELSE Append(called, [call |-> "LogCompensationFailure",
                                          step |-> step])
              i == AfterCompensate(saga.i, ok)
          IN  saga' = [saga EXCEPT
                          !.log = log,
                          !.i = i,
                          !.err = IF i = 0 THEN "saga failed at step" ELSE Nil,
                          !.pc = IF i = 0 THEN "returned" ELSE "compensate"]
    /\ UNCHANGED <<serviceVars, onceVars, gatewayVars, slideVars, pricingVars>>

SagaStart == saga = NoSaga

SagaNext ==
    \/ StartTransaction
    \/ ExecuteStep
    \/ CompensateStep

(* Specifications: the order service as wired by main, the task service as
   wired by its main, the Order aggregate driven by direct calls, the task
   use cases under concurrent requests, and one specification for each of
   the further examples *)

Init ==
    /\ TaskStart /\ OrderStart /\ AggStart /\ ConcStart
    /\ OnceStart /\ GatewayStart /\ SlideStart /\ PricingStart /\ SagaStart

Next == OrderNext

Spec == Init /\ [][Next]_vars

SpecTask == Init /\ [][TaskNext]_vars

SpecAgg == Init /\ [][AggNext]_vars

SpecConc == Init /\ [][ConcNext]_vars

SpecPay == Init /\ [][PayNext]_vars

SpecOnce == Init /\ [][OnceNext]_vars

SpecSlide == Init /\ [][SlideNext]_vars

SpecPricing == Init /\ [][PricingNext]_vars

SpecSaga == Init /\ [][SagaNext]_vars

SpecGateway == Init /\ [][GatewayNext]_vars

----------------------------------------------------------------------------
(* Properties of the task service *)

\* the validation the documentation describes: lengths counted in characters
DocumentedValidation(title, description) ==
    IF RuneCount(title) = 0 THEN ErrEmptyTitle
    ELSE IF RuneCount(title) > MaxTitleLen THEN ErrTitleTooLong
    ELSE IF RuneCount(description) > MaxDescriptionLen THEN ErrDescriptionTooLong
    ELSE Nil

\* C2: every stored task has a non-empty title of at most 200 characters and
\* a description of at most 1000 characters, and NewTask and Task.Update
\* reject exactly: the empty title with ErrEmptyTitle, a title of more than
\* 200 characters with ErrTitleTooLong, a description of more than 1000
\* characters with ErrDescriptionTooLong; every other input is accepted.
C2_ValidatesByCharacters ==
    /\ \A i \in DOMAIN tasks :
          /\ RuneCount(tasks[i].Title) \in 1..MaxTitleLen
          /\ RuneCount(tasks[i].Description) <= MaxDescriptionLen
    /\ resp.verr # "notrun" =>
          resp.verr = DocumentedValidation(resp.title, resp.description)

\* C3: at the handler boundary a missing task answers 404, rejected input
\* answers 400 and a failure of the repository or database answers 500.
C3_StatusByKind ==
    resp.op \in {"CreateTask", "GetTask", "GetAllTasks", "UpdateTask",
                 "DeleteTask"} =>
        /\ resp.cause = "notfound" => resp.status = StatusNotFound
        /\ resp.cause = "validation" => resp.status = StatusBadRequest
        /\ resp.cause = "db" => resp.status = StatusInternalServerError

\* C4: CreateTask with an empty title returns ErrEmptyTitle and no task,
\* calls no repository method and leaves the tasks table as it was.
C4_EmptyTitleRejected ==
    [][(/\ resp'.op = "CreateTask"
        /\ resp'.err # "notcalled"
        /\ resp'.title = EmptyStr)
       => (/\ resp'.err = ErrEmptyTitle
           /\ resp'.task = NilTask
           /\ resp'.calls = <<>>
           /\ tasks' = tasks
           /\ nextID' = nextID)]_vars

C4_Witness ==
    /\ resp.op = "CreateTask"
    /\ resp.title = EmptyStr
    /\ resp.err = ErrEmptyTitle
    /\ tasks # EmptyTable

\* C9: UpdateTask and DeleteTask look the task up first and then make at most
\* one repository write; with an unknown id they return ErrTaskNotFound, with
\* a known id and an invalid title or description UpdateTask returns the
\* validation error, both without calling Update or Delete; a failed call
\* leaves the tasks table as it was.
C9_FailedCallWritesNothing ==
    [][(/\ resp'.op \in {"UpdateTask", "DeleteTask"}
        /\ resp'.err # "notcalled")
       => (/\ resp'.calls \in {<<"GetByID">>, <<"GetByID", "Update">>,
                               <<"GetByID", "Delete">>}
           /\ resp'.id \notin DOMAIN tasks =>
                 /\ resp'.err = ErrTaskNotFound
                 /\ resp'.calls = <<"GetByID">>
           /\ (/\ resp'.op = "UpdateTask"
               /\ resp'.id \in DOMAIN tasks
               /\ resp'.cause # "db"
               /\ DocumentedValidation(resp'.title, resp'.description) # Nil) =>
                 /\ resp'.err \in ValidationErrors
                 /\ resp'.calls = <<"GetByID">>
           /\ resp'.verr \in ValidationErrors =>
                 /\ resp'.err = resp'.verr
                 /\ resp'.calls = <<"GetByID">>
           /\ resp'.err # Nil => (tasks' = tasks /\ nextID' = nextID))]_vars

C9_Witness ==
    /\ resp.op = "UpdateTask"
    /\ resp.id \in DOMAIN tasks
    /\ resp.err = ErrTitleTooLong
    /\ resp.calls = <<"GetByID">>

----------------------------------------------------------------------------
(* Properties of the Order aggregate and of the order service *)

\* C1: MarkAsPaid succeeds only on a PENDING order, whose status becomes
\* PAID; on an order in any other status it returns an error and leaves the
\* status unchanged.
C1_MarkAsPaidOnlyPending ==
    [][(aggCall' = "MarkAsPaid" /\ now' = now)
       => IF ord.status = OrderStatusPending
          THEN aggErr' = Nil /\ ord'.status = OrderStatusPaid
          ELSE aggErr' # Nil /\ ord'.status = ord.status]_vars

C1_Witness ==
    /\ aggCall = "MarkAsPaid"
    /\ aggErr = ErrOnlyPending
    /\ ord.status = OrderStatusPaid

AcceptedPaymentMethods == {"credit_card", "paypal", "crypto"}

\* the deliveries of events of one type about one order to one observer
Deliveries(observer, type, id) ==
    {i \in DOMAIN journal :
        journal[i] = [kind |-> "OnEvent", who |-> observer, type |-> type,
                      id |-> id]}

\* C5: ProcessPayment for a created order with an accepted payment method
\* succeeds, the stored order becomes PAID and each of the three observers
\* receives one OrderPaid event (a call that fails in the database UPDATE or
\* on an order that is no longer PENDING is not covered).
C5_PaymentOfCreatedOrder ==
    (/\ oresp.op = "ProcessPayment"
     /\ oresp.id \in DOMAIN orders
     /\ oresp.method \in AcceptedPaymentMethods
     /\ oresp.stage \notin {"Bind", "MarkAsPaid", "Update"})
    => (/\ oresp.err = Nil
        /\ orders[oresp.id].Status = OrderStatusPaid
        /\ \A i \in DOMAIN Observers :
              Cardinality(Deliveries(Observers[i], "OrderPaid", oresp.id)) = 1)

\* C6: GetOrder(id) returns the order saved under id (same id, customer,
\* total and status) and fails only for an id under which none was saved.
C6_GetOrderReturnsSaved ==
    oresp.op = "GetOrder" =>
        IF oresp.id \in DOMAIN orders
        THEN /\ oresp.err = Nil
             /\ oresp.order.id = oresp.id
             /\ oresp.order.customerID = orders[oresp.id].CustomerID
             /\ oresp.order.totalAmount.amount = orders[oresp.id].TotalAmount
             /\ oresp.order.status = orders[oresp.id].Status
        ELSE oresp.err # Nil

\* what one successful CreateOrder adds to the journal
CreatedTrail(id) ==
    <<[kind |-> "Save", who |-> "orders", type |-> "INSERT", id |-> id],
      [kind |-> "OnEvent", who |-> "Email", type |-> "OrderCreated", id |-> id],
      [kind |-> "OnEvent", who |-> "Logger", type |-> "OrderCreated", id |-> id],
      [kind |-> "OnEvent", who |-> "Analytics", type |-> "OrderCreated",
       id |-> id]>>

\* C7: a successful CreateOrder saves the order and then delivers exactly one
\* OrderCreated event to Email, Logger and Analytics, in that order; a
\* CreateOrder that fails (item conversion, NewOrder or Save) returns the
\* error, stores nothing and publishes nothing.
C7_CreatedEventAfterSave ==
    [][oresp'.op = "CreateOrder"
       => IF oresp'.err = Nil
          THEN /\ journal' = journal \o CreatedTrail(oresp'.order.id)
               /\ oresp'.order.id \in DOMAIN orders' \ DOMAIN orders
          ELSE /\ journal' = journal
               /\ orders' = orders
               /\ oresp'.order = NilOrder]_vars

C7_Witness ==
    /\ oresp.op = "CreateOrder"
    /\ oresp.err = Nil
    /\ journal = CreatedTrail(oresp.order.id)
    /\ oresp.order.id \in DOMAIN orders

RECURSIVE RequestTotal(_)
RequestTotal(items) ==
    IF items = <<>> THEN 0
    ELSE Head(items).Price * Head(items).Quantity + RequestTotal(Tail(items))

\* C8: the order returned by a successful CreateOrder is PENDING, has the
\* customer and the items of the request, and its total is the sum of
\* price x quantity over the items, in USD.
C8_CreatedOrderMatchesRequest ==
    (oresp.op = "CreateOrder" /\ oresp.err = Nil) =>
        /\ oresp.order.status = OrderStatusPending
        /\ oresp.order.customerID = oresp.dto.CustomerID
        /\ Len(oresp.order.items) = Len(oresp.dto.Items)
        /\ \A i \in DOMAIN oresp.dto.Items :
              /\ oresp.order.items[i].productID = oresp.dto.Items[i].ProductID
              /\ oresp.order.items[i].productName = oresp.dto.Items[i].ProductName
              /\ oresp.order.items[i].quantity = oresp.dto.Items[i].Quantity
              /\ oresp.order.items[i].price.amount = oresp.dto.Items[i].Price
        /\ oresp.order.totalAmount.amount = RequestTotal(oresp.dto.Items)
        /\ oresp.order.totalAmount.currency = "USD"

C8_Witness ==
    /\ oresp.op = "CreateOrder"
    /\ oresp.err = Nil
    /\ Len(oresp.order.items) = 2
    /\ oresp.order.items[1].quantity # oresp.order.items[2].quantity
    /\ oresp.order.totalAmount.amount = 13

----------------------------------------------------------------------------
(* Properties of concurrent task requests *)

\* a use case run from its first statement to its return without interruption
RunAlone(cl, tbl, next) ==
    CASE cl.op = "CreateTask" ->
            CreateTaskUC(tbl, next, cl.title, ConcDescription, "none")
      [] cl.op = "GetTask" -> GetTaskUC(tbl, next, cl.id, "none")
      [] cl.op = "UpdateTask" ->
            UpdateTaskUC(tbl, next, cl.id, cl.title, ConcDescription,
                         cl.completed, "none")
      [] cl.op = "CompleteTask" -> CompleteTaskUC(tbl, next, cl.id, "none")
      [] cl.op = "DeleteTask" -> DeleteTaskUC(tbl, next, cl.id, "none")

\* the requests of order, run one at a time from the table tbl: TRUE when
\* each returns what it returned in this round and the table ends as tasks
RECURSIVE SerialRunAgrees(_, _, _)
SerialRunAgrees(order, tbl, next) ==
    IF order = <<>> THEN tbl = tasks /\ next = nextID
    ELSE LET cl == clients[Head(order)]
             out == RunAlone(cl, tbl, next)
         IN  /\ out.task = cl.task
             /\ out.err = cl.err
             /\ SerialRunAgrees(Tail(order), out.tbl, out.next)

Issued == {c \in Clients : clients[c].pc = "done"}

Orderings(S) ==
    {f \in [1..Cardinality(S) -> S] : \A i, j \in DOMAIN f : f[i] = f[j] => i = j}

\* C10: when the concurrently issued task use-case calls have all returned,
\* their results and the stored tasks are those of some order of running the
\* same calls one at a time.
C10_Serializable ==
    AllReturned => \E order \in Orderings(Issued) :
                       SerialRunAgrees(order, base.tbl, base.next)

\* C11: every call of GetDatabaseInstance, concurrent ones included, returns
\* the one Database that was ever constructed
C11_OneInstance ==
    /\ Len(heap) <= 1
    /\ \A c \in Callers :
           callers[c].got # <<>>
               => /\ callers[c].got[1] # NilPointer
                  /\ callers[c].got[1] = instance
                  /\ Len(heap) = 1
    /\ \A c, d \in Callers :
           (callers[c].got # <<>> /\ callers[d].got # <<>>)
               => callers[c].got = callers[d].got

\* two goroutines that both found the flag unset have both returned
C11_Witness ==
    \E c, d \in Callers :
        /\ c # d
        /\ callers[c].slow /\ callers[d].slow
        /\ callers[c].pc = "idle" /\ callers[d].pc = "idle"
        /\ callers[c].got = <<1>> /\ callers[d].got = <<1>>

\* C12: a request under /api/users/, /api/products/ or /api/orders/ is sent
\* to the service of its route, and the status and body that service answers
\* are what the gateway answers
C12_ForwardsToService ==
    [][(exchange'.n = exchange.n + 1 /\ exchange'.target # NoTarget)
          => /\ exchange'.sentTo = exchange'.target.host
             /\ received'[exchange'.target.host]
                    = received[exchange'.target.host] + 1
             /\ exchange'.status = exchange'.answer.status
             /\ exchange'.body = exchange'.answer.body]_vars

\* the journal entries a step appends
Appended == SubSeq(journal', Len(journal) + 1, Len(journal'))

\* C13: a ProcessPayment call with a payment method other than credit_card,
\* paypal and crypto returns an error, leaves every order as it was and
\* publishes no OrderPaid event
C13_OtherMethodsRejected ==
    [][(oresp'.op = "ProcessPayment" /\ oresp'.stage # "Bind"
           /\ oresp'.method \notin AcceptedPaymentMethods)
          => /\ oresp'.err # Nil
             /\ oresp'.status = StatusBadRequest
             /\ orders' = orders
             /\ Len(journal') >= Len(journal)
             /\ \A i \in 1..Len(Appended) : Appended[i].type # "OrderPaid"]_vars

\* the repository supplied an order and the payment method was refused
C13_Witness ==
    /\ oresp.op = "ProcessPayment"
    /\ oresp.method = "cash"
    /\ oresp.stage = "CreatePayment"
    /\ \E i \in DOMAIN orders : orders[i].Status = OrderStatusPending

\* C19: a payment strategy charges only for an order that is PENDING, and a
\* charge is followed, in the same call, by the order stored as PAID or by an
\* error of the repository Update
C19_ChargesOnlyPending ==
    [][\A i \in 1..Len(Appended) :
          Appended[i].kind = "Payment"
              => /\ orders[Appended[i].id].Status = OrderStatusPending
                 /\ \/ /\ oresp'.err = Nil
                       /\ orders'[Appended[i].id].Status = OrderStatusPaid
                    \/ oresp'.stage = "Update"]_vars

\* C14: AddItem and RemoveItem on an order that is not a draft return
\* ErrOrderNotEditable and leave the items and the total as they were
C14_NotEditableAfterDraft ==
    [][(slideCall'.op \in {"AddItem", "RemoveItem"}
           /\ slide.status # OrderStatusDraft)
          => /\ slideCall'.err = ErrOrderNotEditable
             /\ slide'.items = slide.items
             /\ slide'.total = slide.total
             /\ slide'.status = slide.status]_vars

\* AddItem was refused on a placed order that holds an item
C14_Witness ==
    /\ slideCall = [op |-> "AddItem", err |-> ErrOrderNotEditable]
    /\ slide.status = OrderStatusPlaced
    /\ slide.items # <<>>

\* C15: Ship succeeds exactly from PAID and sets SHIPPED; Cancel fails exactly
\* from SHIPPED and DELIVERED and otherwise sets CANCELLED; a call that
\* returns an error leaves status and updatedAt as they were.  The first
\* three conjuncts are about the call made, the last about the two methods
\* on the order in each of the five statuses.
C15_ShipAndCancel ==
    [][(now' = now /\ aggCall' \in {"Ship", "Cancel"})
          => /\ aggCall' = "Ship"
                  => IF ord.status = OrderStatusPaid
                     THEN aggErr' = Nil /\ ord'.status = OrderStatusShipped
                     ELSE aggErr' # Nil
             /\ aggCall' = "Cancel"
                  => IF ord.status \in {OrderStatusShipped,
                                        OrderStatusDelivered}
                     THEN aggErr' # Nil
                     ELSE aggErr' = Nil /\ ord'.status = OrderStatusCancelled
             /\ aggErr' # Nil
                  => /\ ord'.status = ord.status
                     /\ ord'.updatedAt = ord.updatedAt
             /\ \A s \in OrderStatuses :
                    LET o == [ord EXCEPT !.status = s]
                        sh == Ship(o, now)
                        ca == Cancel(o, now)
                    IN  /\ sh.err = Nil <=> s = OrderStatusPaid
                        /\ sh.err = Nil
                              => sh.order.status = OrderStatusShipped
                        /\ sh.err # Nil => sh.order = o
                        /\ ca.err # Nil <=> s \in {OrderStatusShipped,
                                                    OrderStatusDelivered}
                        /\ ca.err = Nil
                              => ca.order.status = OrderStatusCancelled
                        /\ ca.err # Nil => ca.order = o]_vars

\* Cancel was refused on a shipped order later than its last update
C15_Witness ==
    /\ aggCall = "Cancel"
    /\ aggErr = ErrCannotCancel
    /\ ord # NilOrder
    /\ ord.status = OrderStatusShipped
    /\ ord.updatedAt < now

\* the moves of the status the three methods allow
StatusMoves ==
    {<<OrderStatusPending, OrderStatusPaid>>,
     <<OrderStatusPaid, OrderStatusShipped>>,
     <<OrderStatusPending, OrderStatusCancelled>>,
     <<OrderStatusPaid, OrderStatusCancelled>>}

\* C17: the status of an order changes only along PENDING->PAID,
\* PAID->SHIPPED, PENDING->CANCELLED and PAID->CANCELLED, so that SHIPPED and
\* CANCELLED are never left, and no order is ever DELIVERED
C17_StatusMoves ==
    [][/\ (ord # NilOrder /\ ord' # NilOrder /\ ord'.id = ord.id
              /\ ord'.status # ord.status)
            => <<ord.status, ord'.status>> \in StatusMoves
       /\ ord' # NilOrder => ord'.status # OrderStatusDelivered]_vars

\* a call came back with an error on a cancelled order, which stayed cancelled
C17_Witness ==
    /\ ord # NilOrder
    /\ ord.status = OrderStatusCancelled
    /\ aggCall \in {"MarkAsPaid", "Ship"}
    /\ aggErr # Nil

\* the currencies of the prices of a list of items
CurrenciesOf(items) == {items[i].price.currency : i \in 1..Len(items)}

\* C18: NewOrder fails only for an empty list and for a list of more than one
\* currency; for a list of one currency the total of the order is in that
\* currency
C18_NewOrderCurrency ==
    aggCall = "NewOrder"
        => /\ aggErr # Nil
                => (aggArgs = <<>> \/ Cardinality(CurrenciesOf(aggArgs)) > 1)
           /\ (aggErr = Nil /\ Cardinality(CurrenciesOf(aggArgs)) = 1)
                => {ord.totalAmount.currency} = CurrenciesOf(aggArgs)

\* C16: ApplyDiscount with a percent from 0 to 100 succeeds and sets the price
\* to price * (1 - percent/100); with a percent below 0 or above 100 it
\* returns an error and leaves the price as it was
C16_DiscountRange ==
    [][priceCall'.op = "ApplyDiscount"
          => IF priceCall'.percent >= 0 /\ priceCall'.percent <= 100
             THEN /\ priceCall'.err = Nil
                  /\ product'.price.currency = product.price.currency
                  /\ product'.price.amount * 100
                        = product.price.amount * (100 - priceCall'.percent)
             ELSE /\ priceCall'.err # Nil
                  /\ product'.price = product.price]_vars

IsExecute(e) == e.call = "Execute"

IsCompensate(e) == e.call = "Compensate"

\* the steps a run called Execute on and called Compensate on, in call order
Executed == [j \in 1..Len(SelectSeq(saga.log, IsExecute)) |->
                SelectSeq(saga.log, IsExecute)[j].step]

Compensated == [j \in 1..Len(SelectSeq(saga.log, IsCompensate)) |->
                   SelectSeq(saga.log, IsCompensate)[j].step]

\* C20: a run in which step k failed has executed steps 1..k and no later one,
\* has compensated steps k-1 down to 1, each once and in that order, whatever
\* the compensations returned, and has returned an error; a run in which no
\* step failed has executed every step, compensated none and returned nil
C20_SagaRollback ==
    saga.pc = "returned"
        => IF saga.failedAt = 0
           THEN /\ saga.err = Nil
                /\ Executed = [j \in 1..saga.n |-> j]
                /\ Compensated = <<>>
           ELSE /\ saga.err # Nil
                /\ Executed = [j \in 1..saga.failedAt |-> j]
                /\ Compensated = [j \in 1..(saga.failedAt - 1) |->
                                     saga.failedAt - j]

\* the third step failed, the compensation of the second failed too, and the
\* first step was still compensated
C20_Witness ==
    /\ saga.pc = "returned"
    /\ saga.failedAt = 3
    /\ \E j \in 1..Len(saga.log) :
           saga.log[j] = [call |-> "LogCompensationFailure", step |-> 2]
    /\ Compensated = <<2, 1>>

====
